---------------------------- MODULE Spec2Model ----------------------------
(***************************************************************************)
(* Model of src/app.py: calculate_alerts (the per-(week, UF) phenotype     *)
(* percentage, the centred rolling mean / standard deviation, the          *)
(* confidence band and the alert flag) and the two calls main() makes.     *)
(*                                                                         *)
(* Numbers.  pandas computes in binary floating point; the model computes  *)
(* in exact arithmetic.  A float column value is a reduced fraction        *)
(* [n, d] with d > 0, and NaN is the fraction with d = 0.  A standard      *)
(* deviation is kept by its square, and a bound avg -/+ z*std/sqrt(w) as   *)
(* base + sgn*sqrt(sq), so that every comparison the code makes is decided *)
(* exactly.  Rounding of the last float digit is not modelled.             *)
(***************************************************************************)
EXTENDS Integers, Sequences, FiniteSets, Bags, TLC

VARIABLES df, phenotype, window_size, z_score, pc,
          df_merged, df_alerts, df_alerts_erv, df_alerts_wild

vars == <<df, phenotype, window_size, z_score, pc,
          df_merged, df_alerts, df_alerts_erv, df_alerts_wild>>

---------------------------------------------------------------------------
(* Bounds of the model.                                                    *)

\* rows of the input table df
MaxRec == 2
\* weeks 1..MaxWeek
MaxWeek == 2
\* length of one sub-group's series handed to rolling_alerts
MaxLen == 9
\* largest window_size tried on such a series
MaxWin == 9

(* Program constants: the defaults of calculate_alerts.                    *)
DefaultWindow == 8
DefaultZ == [n |-> 49, d |-> 25]

---------------------------------------------------------------------------
(* Exact arithmetic standing for the float columns.                        *)

Abs(x) == IF x < 0 THEN -x ELSE x

RECURSIVE GCD(_, _)
GCD(a, b) == IF b = 0 THEN a ELSE GCD(b, a % b)

NaN == [n |-> 0, d |-> 0]
IsNaN(a) == a.d = 0

Rat(num, den) ==
    LET g == GCD(Abs(num), den)
    IN  [n |-> num \div g, d |-> den \div g]

IntRat(k) == [n |-> k, d |-> 1]

RNeg(a) == [n |-> -a.n, d |-> a.d]

RAdd(a, b) ==
    LET l == (a.d \div GCD(a.d, b.d)) * b.d
    IN  Rat(a.n * (l \div a.d) + b.n * (l \div b.d), l)

RSub(a, b) == RAdd(a, RNeg(b))

RMul(a, b) ==
    LET g1 == GCD(Abs(a.n), b.d)
        g2 == GCD(Abs(b.n), a.d)
    IN  Rat((a.n \div g1) * (b.n \div g2), (a.d \div g2) * (b.d \div g1))

RDivInt(a, k) ==
    LET g == GCD(Abs(a.n), k)
    IN  Rat(a.n \div g, a.d * (k \div g))

RSign(a) == IF a.n < 0 THEN -1 ELSE IF a.n > 0 THEN 1 ELSE 0

\* n1/d1 against n2/d2 for non-negative fractions, by continued fractions
\* (no product is formed): -1, 0 or 1
RECURSIVE FracCmp(_, _, _, _)
FracCmp(n1, d1, n2, d2) ==
    LET q1 == n1 \div d1
        q2 == n2 \div d2
        r1 == n1 % d1
        r2 == n2 % d2
    IN  IF q1 < q2 THEN -1
        ELSE IF q1 > q2 THEN 1
        ELSE IF r1 = 0 /\ r2 = 0 THEN 0
        ELSE IF r1 = 0 THEN -1
        ELSE IF r2 = 0 THEN 1
        ELSE 0 - FracCmp(d1, r1, d2, r2)

RCmp(a, b) ==
    IF RSign(a) # RSign(b) THEN (IF RSign(a) < RSign(b) THEN -1 ELSE 1)
    ELSE IF RSign(a) = 0 THEN 0
    ELSE IF RSign(a) = 1 THEN FracCmp(a.n, a.d, b.n, b.d)
    ELSE FracCmp(-b.n, b.d, -a.n, a.d)

RECURSIVE RSum(_)
RSum(xs) == IF xs = <<>> THEN IntRat(0) ELSE RAdd(Head(xs), RSum(Tail(xs)))

RDiv(a, b) ==
    IF b.n < 0 THEN RMul(RNeg(a), [n |-> b.d, d |-> -b.n])
    ELSE RMul(a, [n |-> b.d, d |-> b.n])

RSquare(a) == RMul(a, a)

---------------------------------------------------------------------------
(* The input table: one row per isolate, with the columns calculate_alerts *)
(* reads.  A table is a bag of rows (the order of the rows of df plays no  *)
(* part: groupby sorts its keys).  "NA" is a missing cell.                 *)

Weeks == 1..MaxWeek
UnitOrder == <<"A", "B">>
Units == {UnitOrder[i] : i \in 1..Len(UnitOrder)}
Outcomes == {"R", "S", "NA"}
Phenotypes == {"ERV", "Wild", "VRSA"}

Records == [week : Weeks, UF : Units, Vancomycine : Outcomes, Teicoplanine : Outcomes]

RECURSIVE Tables(_)
Tables(k) ==
    IF k = 0 THEN {EmptyBag}
    ELSE LET T == Tables(k - 1)
         IN  T \cup {b (+) SetToBag({r}) : b \in T, r \in Records}

\* df[mask]: the rows of d that lie in keep, with their multiplicities
Filter(d, keep) == [r \in DOMAIN d \cap keep |-> d[r]]

\* app.py 22-27: the mask of df_pheno (phenotype is 'ERV' or 'Wild' here)
PhenoMask(ph, r) ==
    IF ph = "ERV" THEN r.Vancomycine = "R"
    ELSE r.Vancomycine = "S" /\ r.Teicoplanine = "S"

\* a slip: the 'Wild' denominator asks for a Vancomycine result only
TestedMaskVancoOnly(ph, r) == r.Vancomycine \in {"R", "S"}

\* app.py 35-38: the mask of df_tested
TestedMask(ph, r) ==
    IF ph = "ERV" THEN r.Vancomycine \in {"R", "S"}
    ELSE r.Vancomycine \in {"R", "S"} /\ r.Teicoplanine \in {"R", "S"}

\* groupby(['Numéro semaine', 'UF']).size(): a count for every key present
GroupSize(b) ==
    LET InKey(k) == Filter(b, {r \in DOMAIN b : <<r.week, r.UF>> = k})
    IN  [k \in {<<r.week, r.UF>> : r \in DOMAIN b} |-> BagCardinality(InKey(k))]

\* app.py 23 / 26 and 32: df_pheno, then pheno_counts
PhenoCounts(d, ph) == GroupSize(Filter(d, {r \in DOMAIN d : PhenoMask(ph, r)}))

\* app.py 36 / 38 and 40: df_tested, then total_tested
TotalTested(d, ph) == GroupSize(Filter(d, {r \in DOMAIN d : TestedMask(ph, r)}))

\* a slip: the ratio is left a fraction of 1
PercentNoScale(nb, total) ==
    IF IsNaN(total) THEN NaN ELSE RDiv(IntRat(nb), total)

\* app.py 44: nb_pheno / total_tested * 100
Percent(nb, total) ==
    IF IsNaN(total) THEN NaN ELSE RMul(RDiv(IntRat(nb), total), IntRat(100))

\* app.py 43-44: pd.merge(pheno_counts, total_tested, how='left') and the
\* percentage column (percent_ERV or percent_wild, here "percent")
MergeLeft(pheno_counts, total_tested) ==
    { LET tt == IF k \in DOMAIN total_tested THEN IntRat(total_tested[k]) ELSE NaN
      IN  [week |-> k[1], UF |-> k[2], nb_pheno |-> pheno_counts[k],
           total_tested |-> tt, percent |-> Percent(pheno_counts[k], tt)]
      : k \in DOMAIN pheno_counts }

UnitRank(u) == CHOOSE i \in 1..Len(UnitOrder) : UnitOrder[i] = u

RowLeq(x, y) ==
    \/ UnitRank(x.UF) < UnitRank(y.UF)
    \/ x.UF = y.UF /\ x.week <= y.week

\* app.py 45: sort_values(['UF', 'Numéro semaine'])
RECURSIVE SortValues(_)
SortValues(rows) ==
    IF rows = {} THEN <<>>
    ELSE LET m == CHOOSE x \in rows : \A y \in rows : RowLeq(x, y)
         IN  <<m>> \o SortValues(rows \ {m})

\* app.py 31-45: df_merged
Aggregate(d, ph) == SortValues(MergeLeft(PhenoCounts(d, ph), TotalTested(d, ph)))

---------------------------------------------------------------------------
(* rolling_alerts (app.py 47-55) and the pandas primitives it calls.       *)

Min(a, b) == IF a < b THEN a ELSE b
Max(a, b) == IF a > b THEN a ELSE b

\* a slip: center=False, the window ends at the position itself
WindowOffsetTrailing(w) == 0

\* a slip: the other convention for an even window (one more value after)
WindowOffsetUpper(w) == w \div 2

\* rolling(window=w, center=True): the centred window's offset
WindowOffset(w) == (w - 1) \div 2

\* the fixed window of 1-based position i in a series of length len:
\* positions WindowStart+1 .. WindowEnd, clipped to the series
WindowEnd(i, w, len) == Min(Max(i + WindowOffset(w), 0), len)
WindowStart(i, w, len) == Min(Max(i + WindowOffset(w) - w, 0), len)

\* the non-NaN observations of the window of position i
Observations(xs, i, w) ==
    SelectSeq(SubSeq(xs, WindowStart(i, w, Len(xs)) + 1, WindowEnd(i, w, Len(xs))),
              LAMBDA x : ~IsNaN(x))

\* a slip: min_periods=1, a partial window yields a mean
RollingMeanMinPeriods1(xs, i, w) ==
    LET obs == Observations(xs, i, w)
    IN  IF Len(obs) >= 1 THEN RDivInt(RSum(obs), Len(obs)) ELSE NaN

\* .rolling(...).mean(), min_periods = window
RollingMean(xs, i, w) ==
    LET obs == Observations(xs, i, w)
    IN  IF Len(obs) >= w /\ Len(obs) > 0 THEN RDivInt(RSum(obs), Len(obs)) ELSE NaN

\* the sample variance (ddof = 1) under .rolling(...).std()
RollingVar(xs, i, w) ==
    LET obs == Observations(xs, i, w)
        mean == RDivInt(RSum(obs), Len(obs))
        sq == [j \in 1..Len(obs) |-> RSquare(RSub(obs[j], mean))]
    IN  IF Len(obs) >= w /\ Len(obs) > 1 THEN RDivInt(RSum(sq), Len(obs) - 1) ELSE NaN

\* .rolling(...).std(): the root of sq
RollingStd(xs, i, w) == [sq |-> RollingVar(xs, i, w)]

NaNBound == [base |-> NaN, sgn |-> 0, sq |-> NaN]

\* app.py 51-52: moving_avg + side * z_score * (moving_std / np.sqrt(window_size)),
\* side -1 for lower_bound and 1 for upper_bound
Bound(avg, std, w, z, side) ==
    IF IsNaN(avg) \/ IsNaN(std.sq) \/ w = 0 THEN NaNBound
    ELSE LET msq == RMul(RSquare(z), RDivInt(std.sq, w))
         IN  [base |-> avg,
              sgn |-> IF msq.n = 0 THEN 0 ELSE side * RSign(z),
              sq |-> msq]

\* p against base + sgn*sqrt(sq): -1 below, 0 equal, 1 above, 2 unordered (a NaN)
CmpBound(p, b) ==
    IF IsNaN(p) \/ IsNaN(b.base) THEN 2
    ELSE LET dist == RSub(p, b.base)
         IN  IF b.sgn = 0 THEN RSign(dist)
             ELSE IF b.sgn = 1
                  THEN (IF RSign(dist) <= 0 THEN -1 ELSE RCmp(RSquare(dist), b.sq))
                  ELSE (IF RSign(dist) >= 0 THEN 1 ELSE 0 - RCmp(RSquare(dist), b.sq))

\* a slip: ~(percent >= lower_bound) | ~(percent <= upper_bound), true of a NaN
AlertNotInside(p, lower, upper) ==
    CmpBound(p, lower) \notin {0, 1} \/ CmpBound(p, upper) \notin {-1, 0}

\* app.py 54: (percent < lower_bound) | (percent > upper_bound)
Alert(p, lower, upper) == CmpBound(p, lower) = -1 \/ CmpBound(p, upper) = 1

Column(group) == [i \in 1..Len(group) |-> group[i].percent]

\* app.py 47-55
rolling_alerts(group, w, z) ==
    [i \in 1..Len(group) |->
        LET avg == RollingMean(Column(group), i, w)
            std == RollingStd(Column(group), i, w)
            lower == Bound(avg, std, w, z, -1)
            upper == Bound(avg, std, w, z, 1)
        IN  [week |-> group[i].week, UF |-> group[i].UF,
             nb_pheno |-> group[i].nb_pheno, total_tested |-> group[i].total_tested,
             percent |-> group[i].percent,
             moving_avg |-> avg, moving_std |-> std,
             lower_bound |-> lower, upper_bound |-> upper,
             alert |-> Alert(group[i].percent, lower, upper)]]

\* the sub-frame of one UF, in the order of merged
GroupOf(merged, u) == SelectSeq(merged, LAMBDA row : row.UF = u)

RECURSIVE ApplyFrom(_, _, _, _)
ApplyFrom(merged, k, w, z) ==
    IF k > Len(UnitOrder) THEN <<>>
    ELSE rolling_alerts(GroupOf(merged, UnitOrder[k]), w, z) \o ApplyFrom(merged, k + 1, w, z)

\* a slip: the rolling pass runs over the whole sorted frame, not per UF
GroupByApplyUngrouped(merged, w, z) == rolling_alerts(merged, w, z)

\* app.py 57: df_merged.groupby('UF').apply(rolling_alerts).reset_index(drop=True)
GroupByApply(merged, w, z) == ApplyFrom(merged, 1, w, z)

\* app.py 31-58, for a phenotype the function knows
CalculateAlerts(d, ph, w, z) == GroupByApply(Aggregate(d, ph), w, z)

---------------------------------------------------------------------------
(* One call of calculate_alerts(df, phenotype, window_size, z_score),      *)
(* step by step.  pc: "called" -> "selected" -> "merged" -> "returned",    *)
(* or "raised" when the call ends in the ValueError of line 29.            *)

\* a slip: no else branch, every other name is handled as 'Wild'
KnownPhenotypeAny(ph) == TRUE

\* app.py 22-29: the if / elif chain; anything else raises
KnownPhenotype(ph) == ph \in {"ERV", "Wild"}

\* window sizes and z-scores a caller may pass (pandas accepts window=0 and
\* yields NaN throughout; nothing in the function looks at the sign of z_score)
CallWindows == {0, 1, 2}
CallZ == {RNeg(DefaultZ), DefaultZ}

InitCall ==
    /\ pc = "called"
    /\ df \in Tables(MaxRec)
    /\ phenotype \in Phenotypes
    /\ window_size \in CallWindows
    /\ z_score \in CallZ
    /\ df_merged = <<>>
    /\ df_alerts = <<>>
    /\ df_alerts_erv = <<>>
    /\ df_alerts_wild = <<>>

\* app.py 22-27: df_pheno and col_percent are chosen
SelectPhenotype ==
    /\ pc = "called"
    /\ KnownPhenotype(phenotype)
    /\ pc' = "selected"
    /\ UNCHANGED <<df, phenotype, window_size, z_score, df_merged, df_alerts,
                   df_alerts_erv, df_alerts_wild>>

\* app.py 28-29: raise ValueError("Phénotype inconnu")
RaiseUnknown ==
    /\ pc = "called"
    /\ ~KnownPhenotype(phenotype)
    /\ pc' = "raised"
    /\ UNCHANGED <<df, phenotype, window_size, z_score, df_merged, df_alerts,
                   df_alerts_erv, df_alerts_wild>>

\* app.py 31-45: the counts, the merge, the percentage, the sort
Merge ==
    /\ pc = "selected"
    /\ df_merged' = Aggregate(df, phenotype)
    /\ pc' = "merged"
    /\ UNCHANGED <<df, phenotype, window_size, z_score, df_alerts,
                   df_alerts_erv, df_alerts_wild>>

\* app.py 47-58: the rolling pass of every UF, and the return
Rolling ==
    /\ pc = "merged"
    /\ df_alerts' = GroupByApply(df_merged, window_size, z_score)
    /\ pc' = "returned"
    /\ UNCHANGED <<df, phenotype, window_size, z_score, df_merged,
                   df_alerts_erv, df_alerts_wild>>

NextCall == SelectPhenotype \/ RaiseUnknown \/ Merge \/ Rolling

SpecCall == InitCall /\ [][NextCall]_vars

---------------------------------------------------------------------------
(* rolling_alerts on one sub-group's series: the call is entered with      *)
(* df_merged already built, one UF, weeks ascending.                       *)

\* (nb_pheno, total_tested) of a bucket: 10 % and 50 %
SeriesCounts == {<<1, 10>>, <<5, 10>>}
RollZ == {IntRat(0), DefaultZ}

SeriesOf(f) ==
    [i \in DOMAIN f |->
        [week |-> i, UF |-> "A", nb_pheno |-> f[i][1], total_tested |-> IntRat(f[i][2]),
         percent |-> Percent(f[i][1], IntRat(f[i][2]))]]

InitRoll ==
    /\ pc = "merged"
    /\ df = EmptyBag
    /\ phenotype = "ERV"
    /\ window_size \in 1..MaxWin
    /\ z_score \in RollZ
    /\ \E len \in 1..MaxLen : \E f \in [1..len -> SeriesCounts] : df_merged = SeriesOf(f)
    /\ df_alerts = <<>>
    /\ df_alerts_erv = <<>>
    /\ df_alerts_wild = <<>>

SpecRoll == InitRoll /\ [][Rolling]_vars

---------------------------------------------------------------------------
(* main(), page "ERV + Wild" (app.py 304-308): the table is loaded and     *)
(* calculate_alerts runs on it for 'ERV' and then for 'Wild', both with    *)
(* the default window_size and z_score.                                    *)

InitMain ==
    /\ pc = "loaded"
    /\ df \in Tables(MaxRec)
    /\ phenotype = "ERV"
    /\ window_size = DefaultWindow
    /\ z_score = DefaultZ
    /\ df_merged = <<>>
    /\ df_alerts = <<>>
    /\ df_alerts_erv = <<>>
    /\ df_alerts_wild = <<>>

\* app.py 307
CallERV ==
    /\ pc = "loaded"
    /\ df_alerts_erv' = CalculateAlerts(df, "ERV", DefaultWindow, DefaultZ)
    /\ pc' = "erv_done"
    /\ UNCHANGED <<df, phenotype, window_size, z_score, df_merged, df_alerts, df_alerts_wild>>

\* app.py 308
CallWild ==
    /\ pc = "erv_done"
    /\ df_alerts_wild' = CalculateAlerts(df, "Wild", DefaultWindow, DefaultZ)
    /\ pc' = "wild_done"
    /\ UNCHANGED <<df, phenotype, window_size, z_score, df_merged, df_alerts, df_alerts_erv>>

NextMain == CallERV \/ CallWild

SpecMain == InitMain /\ [][NextMain]_vars

---------------------------------------------------------------------------
(* Properties of the rolling pass (checked under SpecRoll).                *)

Half(w) == w \div 2

\* the rolling pass has run on a one-UF series
Rolled == pc = "returned" /\ Len(df_alerts) = Len(df_merged)

\* the complete window of 1-based position i lies inside 1..len
CompleteWindow(i, w, len) == i - Half(w) >= 1 /\ i + (w - 1 - Half(w)) <= len

\* the w percentages of that window
WindowValues(i, w) == [k \in 1..w |-> df_merged[i - Half(w) + k - 1].percent]

StatsNull(row) ==
    /\ IsNaN(row.moving_avg)
    /\ IsNaN(row.moving_std.sq)
    /\ IsNaN(row.lower_bound.base)
    /\ IsNaN(row.upper_bound.base)

StatsDefined(row) ==
    /\ ~IsNaN(row.moving_avg)
    /\ ~IsNaN(row.moving_std.sq)
    /\ ~IsNaN(row.lower_bound.base)
    /\ ~IsNaN(row.upper_bound.base)

\* the mean and the sample variance of the window, written from their sums:
\* w * mean = sum x, w (w - 1) var = w sum x^2 - (sum x)^2
StatsOfWindow(row, i, w) ==
    LET xs == WindowValues(i, w)
        sq == [k \in 1..w |-> RSquare(xs[k])]
    IN  /\ RMul(row.moving_avg, IntRat(w)) = RSum(xs)
        /\ RMul(row.moving_std.sq, IntRat(w * (w - 1)))
             = RSub(RMul(IntRat(w), RSum(sq)), RSquare(RSum(xs)))
        /\ row.lower_bound.base = row.moving_avg
        /\ row.upper_bound.base = row.moving_avg

ScenarioASeries ==
    [i \in 1..9 |-> IF i = 9 THEN IntRat(50) ELSE IntRat(10)]

ScenarioA ==
    /\ Rolled
    /\ window_size = 8
    /\ z_score = DefaultZ
    /\ Column(df_merged) = ScenarioASeries

\* C1 as stated: in Scenario A (series [10 x 8, 50], window_size 8, z_score
\* 1.96) the 9th position, whose percent is 50, has alert = true.
C1_LastPositionFlagged == ScenarioA => df_alerts[9].alert

\* C1 as amended: in Scenario A the 9th position has no statistics
\* (moving_avg, moving_std and both bounds are null, its centred window
\* running past the end of the series) and alert = false.
C1_LastPositionUndefined ==
    ScenarioA => StatsNull(df_alerts[9]) /\ ~df_alerts[9].alert

C1_Witness == ScenarioA /\ df_alerts[9].percent = IntRat(50)

\* C2 as stated: every row at one of the first floor(w/2) or one of the last
\* floor(w/2) positions of the series has moving_avg null and alert false.
C2_BothEdgesHalf ==
    Rolled =>
        \A i \in 1..Len(df_alerts) :
            (i <= Half(window_size) \/ i > Len(df_alerts) - Half(window_size))
                => IsNaN(df_alerts[i].moving_avg) /\ ~df_alerts[i].alert

\* C2 as amended: every row at one of the first floor(w/2) or one of the last
\* floor((w-1)/2) positions of the series has moving_avg null and alert false.
C2_EdgesNull ==
    Rolled =>
        \A i \in 1..Len(df_alerts) :
            (i <= Half(window_size) \/ i > Len(df_alerts) - Half(window_size - 1))
                => IsNaN(df_alerts[i].moving_avg) /\ ~df_alerts[i].alert

\* an even window on a series long enough to have a defined position
C2_Witness ==
    /\ Rolled
    /\ window_size = 8
    /\ Len(df_alerts) >= 8
    /\ ~IsNaN(df_alerts[Len(df_alerts) - 3].moving_avg)
    /\ IsNaN(df_alerts[Len(df_alerts) - 2].moving_avg)
    /\ IsNaN(df_alerts[4].moving_avg)

\* C4 as stated: the four statistics of position i are defined exactly when
\* the complete window of i lies inside the series, and are then those of
\* its w values; everywhere else they are null and alert is false.
C4_DefinedIffCompleteWindow ==
    Rolled =>
        \A i \in 1..Len(df_alerts) :
            IF CompleteWindow(i, window_size, Len(df_alerts))
            THEN StatsDefined(df_alerts[i]) /\ StatsOfWindow(df_alerts[i], i, window_size)
            ELSE StatsNull(df_alerts[i]) /\ ~df_alerts[i].alert

\* C4 as amended: for w >= 2 the four statistics of position i are defined
\* exactly when the complete window of i lies inside the series, and are then
\* those of its w values; everywhere else they are null and alert is false
\* (so a series shorter than w has null statistics and no alert anywhere).
\* For w = 1 moving_avg is the percent itself at every position, moving_std
\* and both bounds are null (one value has no sample deviation) and alert is
\* false.
C4_WindowSupport ==
    Rolled =>
        \A i \in 1..Len(df_alerts) :
            IF window_size = 1
            THEN /\ df_alerts[i].moving_avg = df_alerts[i].percent
                 /\ IsNaN(df_alerts[i].moving_std.sq)
                 /\ IsNaN(df_alerts[i].lower_bound.base)
                 /\ IsNaN(df_alerts[i].upper_bound.base)
                 /\ ~df_alerts[i].alert
            ELSE IF CompleteWindow(i, window_size, Len(df_alerts))
            THEN StatsDefined(df_alerts[i]) /\ StatsOfWindow(df_alerts[i], i, window_size)
            ELSE StatsNull(df_alerts[i]) /\ ~df_alerts[i].alert

\* a series with a defined position and an undefined one, and w >= 2
C4_Witness ==
    /\ Rolled
    /\ window_size >= 2
    /\ \E i \in 1..Len(df_alerts) : StatsDefined(df_alerts[i]) /\ df_alerts[i].moving_std.sq.n > 0
    /\ \E i \in 1..Len(df_alerts) : StatsNull(df_alerts[i])

\* percent lies outside the band [lower_bound, upper_bound]
OutsideBand(row) ==
    CmpBound(row.percent, row.lower_bound) = -1 \/ CmpBound(row.percent, row.upper_bound) = 1

\* C5: alert is true exactly when percent is defined, moving_avg and both
\* bounds are defined, and percent < lower_bound or percent > upper_bound; so
\* it is never true on a null percent, on an undefined moving_avg, or on a
\* percent within [lower_bound, upper_bound].
C5_AlertIffOutsideBand ==
    pc = "returned" =>
        \A i \in 1..Len(df_alerts) :
            LET row == df_alerts[i]
            IN  row.alert <=>
                    /\ ~IsNaN(row.percent)
                    /\ ~IsNaN(row.moving_avg)
                    /\ ~IsNaN(row.lower_bound.base)
                    /\ ~IsNaN(row.upper_bound.base)
                    /\ OutsideBand(row)

\* one flagged row, one row inside its band, one row without statistics
C5_Witness ==
    /\ pc = "returned"
    /\ z_score = DefaultZ
    /\ \E i \in 1..Len(df_alerts) : df_alerts[i].alert
    /\ \E i \in 1..Len(df_alerts) : StatsDefined(df_alerts[i]) /\ ~df_alerts[i].alert
    /\ \E i \in 1..Len(df_alerts) : IsNaN(df_alerts[i].moving_avg)

---------------------------------------------------------------------------
(* Properties of the aggregation (checked under SpecMain, where both       *)
(* phenotypes are computed over the same table).                           *)

BothDone == pc = "wild_done"

Rows(out) == {out[i] : i \in 1..Len(out)}

Output(ph) == IF ph = "ERV" THEN df_alerts_erv ELSE df_alerts_wild

\* the antibiotics a phenotype is read from
Relevant(ph) == IF ph = "ERV" THEN {"Vancomycine"} ELSE {"Vancomycine", "Teicoplanine"}

\* a conclusive (R or S) outcome on every relevant antibiotic
Conclusive(ph, r) == \A a \in Relevant(ph) : r[a] \in {"R", "S"}

BelongsTo(ph, r) ==
    IF ph = "ERV" THEN r.Vancomycine = "R"
    ELSE r.Vancomycine = "S" /\ r.Teicoplanine = "S"

\* the rows of df in bucket (wk, u)
Bucket(wk, u) == {r \in DOMAIN df : r.week = wk /\ r.UF = u}

\* how many rows of df lie in rs, counted with their multiplicities
RECURSIVE CountOf(_)
CountOf(rs) ==
    IF rs = {} THEN 0
    ELSE LET r == CHOOSE x \in rs : TRUE
         IN  df[r] + CountOf(rs \ {r})

RowsAt(out, wk, u) == {i \in 1..Len(out) : out[i].week = wk /\ out[i].UF = u}

\* C3: each output holds exactly one row for every (week, UF) pair that has
\* at least one eligible record, also when none of them has the phenotype
\* (stated of the outputs that hold a row at all).
C3_EveryEligibleBucket ==
    BothDone =>
        \A ph \in {"ERV", "Wild"} :
            Output(ph) # <<>> =>
                \A wk \in Weeks : \A u \in Units :
                    CountOf({r \in Bucket(wk, u) : Conclusive(ph, r)}) > 0
                        => Cardinality(RowsAt(Output(ph), wk, u)) = 1

\* C7: in every bucket of each output, total_tested is the number of records
\* with an R or S outcome on every relevant antibiotic and nb_pheno the number
\* of those that have the phenotype; a record with a missing relevant outcome
\* is in neither count, and nb_pheno <= total_tested.
C7_MissingOutcomeExcluded ==
    BothDone =>
        \A ph \in {"ERV", "Wild"} : \A row \in Rows(Output(ph)) :
            LET here == Bucket(row.week, row.UF)
                tested == CountOf({r \in here : Conclusive(ph, r)})
                pheno == CountOf({r \in here : Conclusive(ph, r) /\ BelongsTo(ph, r)})
                missing == CountOf({r \in here : ~Conclusive(ph, r)})
                all == CountOf(here)
            IN  /\ row.total_tested = IntRat(tested)
                /\ row.nb_pheno = pheno
                /\ row.nb_pheno <= tested
                /\ tested = all - missing

\* a 'Wild' bucket in which a record lacks a relevant outcome
C7_Witness ==
    /\ BothDone
    /\ \E row \in Rows(df_alerts_wild) :
          /\ CountOf({r \in Bucket(row.week, row.UF) : ~Conclusive("Wild", r)}) > 0
          /\ row.total_tested = IntRat(1)

\* the records of a bucket that match either category
EitherCount(wk, u) ==
    CountOf({r \in Bucket(wk, u) : BelongsTo("ERV", r) \/ BelongsTo("Wild", r)})

SamePair(e, w) == e.week = w.week /\ e.UF = w.UF

\* C8 as stated: for every bucket the two outputs share, percent_ERV and
\* percent_wild sum to exactly 100 and the denominator of each is the number
\* of records matching either category.
C8_PercentsSumTo100 ==
    BothDone =>
        \A e \in Rows(df_alerts_erv) : \A w \in Rows(df_alerts_wild) :
            SamePair(e, w) =>
                /\ RAdd(e.percent, w.percent) = IntRat(100)
                /\ e.total_tested = IntRat(EitherCount(e.week, e.UF))
                /\ w.total_tested = IntRat(EitherCount(e.week, e.UF))

\* C8 as amended: the two categories are disjoint, each output has its own
\* denominator, and for every bucket the two outputs share in which both
\* denominators equal the number of records matching either category,
\* percent_ERV and percent_wild sum to exactly 100.
C8_SumTo100WhenDenominatorsShared ==
    BothDone =>
        /\ \A r \in DOMAIN df : ~(PhenoMask("ERV", r) /\ PhenoMask("Wild", r))
        /\ \A e \in Rows(df_alerts_erv) : \A w \in Rows(df_alerts_wild) :
              ( /\ SamePair(e, w)
                /\ e.total_tested = IntRat(EitherCount(e.week, e.UF))
                /\ w.total_tested = IntRat(EitherCount(e.week, e.UF)) )
                  => RAdd(e.percent, w.percent) = IntRat(100)

\* a bucket with one ERV and one wild-type record, and nothing else
C8_Witness ==
    /\ BothDone
    /\ \E e \in Rows(df_alerts_erv) : \E w \in Rows(df_alerts_wild) :
          /\ SamePair(e, w)
          /\ e.total_tested = IntRat(EitherCount(e.week, e.UF))
          /\ w.total_tested = IntRat(EitherCount(e.week, e.UF))
          /\ e.percent = IntRat(50)

---------------------------------------------------------------------------
(* Properties of one call (checked under SpecCall).                        *)

\* the rows of d whose UF is u
Restrict(d, u) == Filter(d, {r \in DOMAIN d : r.UF = u})

RowsOfUnit(out, u) == SelectSeq(out, LAMBDA row : row.UF = u)

\* C6: the rows of a UF depend on the records of that UF alone: they are the
\* rows the same call yields on the table stripped of every other UF (hence
\* the same for any two tables that agree on that UF).
C6_UnitsIndependent ==
    pc = "returned" =>
        \A u \in Units :
            RowsOfUnit(df_alerts, u)
                = RowsOfUnit(CalculateAlerts(Restrict(df, u), phenotype,
                                             window_size, z_score), u)

\* both UF have a row and the window spans more than one row
C6_Witness ==
    /\ pc = "returned"
    /\ window_size = 2
    /\ \A u \in Units : RowsOfUnit(df_alerts, u) # <<>>

\* C9: a call with window_size < 1 or z_score < 0 does not return a result:
\* no returned frame holds bounds computed from such a configuration.
C9_InvalidConfigRejected ==
    ( /\ pc = "returned"
      /\ \E i \in 1..Len(df_alerts) : ~IsNaN(df_alerts[i].lower_bound.base) )
        => window_size >= 1 /\ RSign(z_score) >= 0

UnknownStopsAtTest ==
    ~(phenotype \in {"ERV", "Wild"}) =>
        /\ pc \in {"called", "raised"}
        /\ df_merged = <<>>
        /\ df_alerts = <<>>

\* C10: a call with a phenotype other than 'ERV' or 'Wild' raises before any
\* counting, merging or rolling: it never gets past the phenotype test,
\* df_merged and df_alerts are never built, nothing is returned; and no step
\* of a call changes the input table df.
C10_UnknownPhenotypeRaises == [](UnknownStopsAtTest) /\ [][df' = df]_vars

C10_Witness == pc = "raised" /\ phenotype = "VRSA" /\ df # EmptyBag

===========================================================================
